---- MODULE Spec2Model ----
(***************************************************************************)
(* ZVPG: snapshots and branches of a PostgreSQL data directory kept as ZFS *)
(* datasets, with one PostgreSQL instance per branch (a container, or a    *)
(* pg_ctl process in the earlier BranchService).                           *)
(*                                                                         *)
(* Strings are sequences of one-character strings, so that the string      *)
(* operations of the code (includes, template literals, parseInt) are      *)
(* computed and not assumed.  The ZFS pool and the container runtime are   *)
(* the state; every service method is one action that runs the whole       *)
(* method against that state, with the answers of zfs and of the runtime   *)
(* that the code looks at as its inputs.                                   *)
(*                                                                         *)
(* Spec       two branches, their instances and ports, the create command  *)
(* GraphSpec  a branch, a nested branch, snapshots of data and of a branch *)
(* PgCtlSpec  the pg_ctl BranchService                                     *)
(* WaitSpec   waitForPostgres, probe by probe                              *)
(* RaceSpec   createBranch invocations interleaved await by await, two of  *)
(*            them for the same branch                                     *)
(* FaultSpec  killed invocations, containers that exit, refused writes     *)
(* CloneSpec  the CloneService next to the snapshot service                *)
(* StatusSpec the status report and the health check over the branches     *)
(***************************************************************************)
EXTENDS Integers, Sequences, FiniteSets, TLC

VARIABLES
  filesystems,   \* set of ZFS filesystem names of the pool
  origin,        \* filesystem -> origin snapshot full name, Dash when none
  snapshots,     \* sequence of snapshot full names, in creation order
  props,         \* dataset -> locally set zvpg:* user properties
  containers,    \* set of containers known to the runtime (running or exited)
  lastOp,        \* the last service call and how it ended
  selectedPort,  \* port picked by a branch create command not yet continued, 0 when none
  wPort, wI, wProbes, wDone,  \* one run of waitForPostgres, step by step
  pc             \* where each of the concurrent createBranch invocations stands

vars == <<filesystems, origin, snapshots, props, containers,
          selectedPort, lastOp, wPort, wI, wProbes, wDone, pc>>

poolVars == <<filesystems, origin, snapshots, props>>
waitVars == <<wPort, wI, wProbes, wDone>>
runtimeVars == <<containers>>

-----------------------------------------------------------------------------
(* Bounds of the model *)

NumPorts == 2        \* size of the branch port range

-----------------------------------------------------------------------------
(* Strings *)

Dash == <<"-">>
Slash == <<"/">>
At == <<"@">>

\* String.prototype.includes
Includes(s, sub) ==
  \E i \in 0..(Len(s) - Len(sub)) : SubSeq(s, i + 1, i + Len(sub)) = sub

StartsWith(s, pre) ==
  Len(pre) <= Len(s) /\ SubSeq(s, 1, Len(pre)) = pre

Chars(s) == {s[i] : i \in 1..Len(s)}

\* index of the first occurrence of the character c in s, 0 when absent
IndexOf(s, c) ==
  IF c \in Chars(s) THEN CHOOSE i \in 1..Len(s) : s[i] = c /\ \A j \in 1..(i - 1) : s[j] # c
  ELSE 0

\* index of the last occurrence of the character c in s, 0 when absent
LastIndexOf(s, c) ==
  IF c \in Chars(s) THEN CHOOSE i \in 1..Len(s) : s[i] = c /\ \A j \in (i + 1)..Len(s) : s[j] # c
  ELSE 0

Digits == <<"0", "1", "2", "3", "4", "5", "6", "7", "8", "9">>

RECURSIVE NumToString(_)
\* `${port}` and port.toString() of a non-negative integer
NumToString(n) ==
  IF n < 10 THEN <<Digits[n + 1]>>
  ELSE NumToString(n \div 10) \o <<Digits[(n % 10) + 1]>>

DigitValue(c) == (CHOOSE i \in 1..10 : Digits[i] = c) - 1

IsDigit(c) == \E i \in 1..10 : Digits[i] = c

RECURSIVE ParseDigits(_, _, _)
ParseDigits(s, i, acc) ==
  IF i > Len(s) \/ ~IsDigit(s[i]) THEN acc
  ELSE ParseDigits(s, i + 1, acc * 10 + DigitValue(s[i]))

NaN == -1

\* parseInt of a string without sign or blanks: the leading digits, NaN when there are none
parseInt(s) ==
  IF Len(s) = 0 \/ ~IsDigit(s[1]) THEN NaN ELSE ParseDigits(s, 1, 0)

-----------------------------------------------------------------------------
(* Configuration (defaultConfig), with the names shortened to one letter *)

zfsPool == <<"p">>
dataSubdir == <<"d">>
branchesSubdir == <<"b">>
branchPortStart == 6001
branchPortEnd == branchPortStart + NumPorts - 1
maxRetries == 30

Ports == branchPortStart..branchPortEnd

dataDataset == zfsPool \o Slash \o dataSubdir
branchesDir == zfsPool \o Slash \o branchesSubdir

\* characters of [\p{L}\p{N}\-_\/] that the model uses
BranchNameChars == {"x", "y", "/", "_", "-", "0", "1", "6"}

\* branchNamingPattern: ^(?!\/|\.|.*([\/\.]\.|\/\/|\.lock$))[\p{L}\p{N}\-_\/]+$
\* ('.' is outside the character class, so only the leading '/' and '//' remain)
validateBranchName(name) ==
  /\ Len(name) > 0
  /\ Chars(name) \subseteq BranchNameChars
  /\ name[1] # "/"
  /\ ~Includes(name, <<"/", "/">>)

SnapshotNameChars == {"s", "t", "_", "-"}

\* /^[a-zA-Z0-9_-]+$/
validateSnapshotName(name) ==
  Len(name) > 0 /\ Chars(name) \subseteq SnapshotNameChars

getBranchDataset(branchName) == zfsPool \o Slash \o branchesSubdir \o Slash \o branchName

getBranchMount(branchName) == <<"m">> \o Slash \o getBranchDataset(branchName)

getContainerName(branchName, port) ==
  <<"z", "_">> \o branchName \o <<"_">> \o NumToString(port)

formatISOTimestamp == <<"T">>

-----------------------------------------------------------------------------
(* The pool as the zfs command shows it.  A world w is the record of the   *)
(* state variables an operation reads and writes.                          *)

World ==
  [fs |-> filesystems, origin |-> origin, snaps |-> snapshots, props |-> props,
   containers |-> containers]

PropKeys == {"port", "container", "branch_name", "parent_branch",
             "parent_snapshot", "created", "message", "branch"}

NoProps == [k \in PropKeys |-> Dash]

SnapSet(w) == {w.snaps[i] : i \in 1..Len(w.snaps)}

Datasets(w) == w.fs \cup SnapSet(w)

\* the filesystem a snapshot full name belongs to, and its short name
SnapFs(full) == SubSeq(full, 1, IndexOf(full, "@") - 1)
SnapShort(full) == SubSeq(full, IndexOf(full, "@") + 1, Len(full))

\* the dataset one level up: the filesystem of a snapshot, the parent of a filesystem
ParentOf(ds) ==
  IF "@" \in Chars(ds) THEN SnapFs(ds)
  ELSE SubSeq(ds, 1, LastIndexOf(ds, "/") - 1)

IsBelow(ds, root) == StartsWith(ds, root \o Slash)

\* zfs list <name>
zfsList(w, name) == name \in Datasets(w)

\* zfs list -t snapshot <name>
snapshotExists(w, snapshotName) == snapshotName \in SnapSet(w)

\* zfs list -t filesystem <root> -H -o name, without -r
zfsListFilesystemsNotRecursive(w, root) ==
  IF root \in w.fs THEN {root} ELSE {}

\* zfs list -t filesystem -r <root> -H -o name
zfsListFilesystems(w, root) ==
  IF root \in w.fs THEN {f \in w.fs : f = root \/ IsBelow(f, root)} ELSE {}

RECURSIVE zfsGet(_, _, _)
\* zfs get -H -o value zvpg:<key> <ds>: the local value, else the inherited one, else "-"
zfsGet(w, ds, key) ==
  IF ds \notin Datasets(w) THEN Dash
  ELSE IF w.props[ds][key] # Dash THEN w.props[ds][key]
  ELSE IF ds = zfsPool THEN Dash
  ELSE zfsGet(w, ParentOf(ds), key)

\* zfs set zvpg:<key>=<value> <ds>
zfsSet(w, ds, key, value) ==
  IF ds \in Datasets(w)
  THEN [w EXCEPT !.props = [@ EXCEPT ![ds] = [@ EXCEPT ![key] = value]]]
  ELSE w

\* zfs inherit zvpg:<key> <ds>
zfsInherit(w, ds, key) == zfsSet(w, ds, key, Dash)

\* a clone that does not mind the target being there already
zfsCloneOkOverExisting(w, snap, target) ==
  /\ snap \in SnapSet(w)
  /\ ~("@" \in Chars(target))
  /\ ParentOf(target) \in w.fs

zfsCloneOk(w, snap, target) ==
  /\ snap \in SnapSet(w)
  /\ target \notin Datasets(w)
  /\ ~("@" \in Chars(target))
  /\ ParentOf(target) \in w.fs

\* zfs clone <snap> <target>
zfsClone(w, snap, target) ==
  [w EXCEPT !.fs = @ \cup {target},
            !.origin = [f \in w.fs \cup {target} |-> IF f = target THEN snap ELSE w.origin[f]],
            !.props = [d \in Datasets(w) \cup {target} |->
                         IF d = target THEN NoProps ELSE w.props[d]]]

zfsCreateOk(w, path) == path \notin Datasets(w) /\ ParentOf(path) \in w.fs

\* zfs create <path>
zfsCreate(w, path) ==
  [w EXCEPT !.fs = @ \cup {path},
            !.origin = [f \in w.fs \cup {path} |-> IF f = path THEN Dash ELSE w.origin[f]],
            !.props = [d \in Datasets(w) \cup {path} |->
                         IF d = path THEN NoProps ELSE w.props[d]]]

zfsSnapshotOk(w, full) ==
  /\ "@" \in Chars(full)
  /\ SnapFs(full) \in w.fs
  /\ Len(SnapShort(full)) > 0
  /\ Chars(SnapShort(full)) \cap {"/", "@"} = {}
  /\ full \notin SnapSet(w)

\* zfs snapshot <full>
zfsSnapshot(w, full) ==
  [w EXCEPT !.snaps = Append(@, full),
            !.props = [d \in Datasets(w) \cup {full} |->
                         IF d = full THEN NoProps ELSE w.props[d]]]

\* what keeps zfs destroy <ds> (no -r, no -R) from succeeding: child filesystems
\* and snapshots of a filesystem, clones of a snapshot
zfsDestroyBlockers(w, ds) ==
  IF ds \in w.fs
  THEN {f \in w.fs : IsBelow(f, ds)} \cup {s \in SnapSet(w) : SnapFs(s) = ds}
  ELSE {f \in w.fs : w.origin[f] = ds}

zfsDestroyOk(w, ds) == ds \in Datasets(w) /\ zfsDestroyBlockers(w, ds) = {}

\* zfs destroy <ds>
zfsDestroy(w, ds) ==
  [w EXCEPT !.fs = @ \ {ds},
            !.origin = [f \in w.fs \ {ds} |-> w.origin[f]],
            !.snaps = SelectSeq(@, LAMBDA s : s # ds),
            !.props = [d \in Datasets(w) \ {ds} |-> w.props[d]]]

-----------------------------------------------------------------------------
(* The result of a service call *)

Result(w, res, deps, cmds) == [w |-> w, res |-> res, deps |-> deps, cmds |-> cmds]

-----------------------------------------------------------------------------
(* SnapshotService *)

\* a zfs set that the backend carries out (setOk) or refuses; its result is
\* not looked at by any caller
zfsSetAnswered(w, ds, key, value, setOk) ==
  IF setOk THEN zfsSet(w, ds, key, value) ELSE w

\* createSnapshot with the default message; setOk is the answer of the backend
\* to the attribute writes
createSnapshotWith(w, name, setOk) ==
  LET fullSnapshotName == zfsPool \o Slash \o dataSubdir \o At \o name IN
  IF ~validateSnapshotName(name) THEN Result(w, "invalid_name", {}, <<>>)
  ELSE IF snapshotExists(w, fullSnapshotName) THEN Result(w, "already_exists", {}, <<>>)
  ELSE IF ~zfsList(w, dataDataset) THEN Result(w, "not_found", {}, <<>>)
  ELSE IF ~zfsSnapshotOk(w, fullSnapshotName)
       THEN Result(w, "backend_failed", {}, <<<<"snapshot", fullSnapshotName, FALSE>>>>)
  ELSE LET w1 == zfsSnapshot(w, fullSnapshotName)
           w2 == zfsSetAnswered(w1, fullSnapshotName, "message", <<"M">>, setOk)
           w3 == zfsSetAnswered(w2, fullSnapshotName, "created", formatISOTimestamp, setOk)
       IN Result(w3, "ok", {},
                 <<<<"snapshot", fullSnapshotName, TRUE>>,
                   <<"set_message", fullSnapshotName, setOk>>,
                   <<"set_created", fullSnapshotName, setOk>>>>)

createSnapshot(w, name) == createSnapshotWith(w, name, TRUE)

\* the filter applied to the name column alone
dependentClonesByName(w, fullSnapshotName) ==
  {f \in w.fs : Includes(f, fullSnapshotName)}

\* the lines "name\torigin" of zfs list -t filesystem -r <pool> -H -o name,origin
\* that include fullSnapshotName, mapped to their name column
dependentClones(w, fullSnapshotName) ==
  {f \in zfsListFilesystems(w, zfsPool) :
     Includes(f \o <<"\t">> \o w.origin[f], fullSnapshotName)}

deleteSnapshot(w, name, force) ==
  LET fullSnapshotName ==
        IF ~("@" \in Chars(name)) THEN zfsPool \o Slash \o dataSubdir \o At \o name
        ELSE name
      clones == dependentClones(w, fullSnapshotName)
  IN
  IF ~snapshotExists(w, fullSnapshotName) THEN Result(w, "not_found", {}, <<>>)
  ELSE IF clones # {} /\ ~force THEN Result(w, "has_dependents", clones, <<>>)
  ELSE IF ~zfsDestroyOk(w, fullSnapshotName)
       THEN Result(w, "backend_failed", {}, <<<<"destroy", fullSnapshotName, FALSE>>>>)
  ELSE Result(zfsDestroy(w, fullSnapshotName), "ok", {},
              <<<<"destroy", fullSnapshotName, TRUE>>>>)

\* the filesystems whose origin column equals fullSnapshotName
getSnapshotClones(w, fullSnapshotName) ==
  {f \in zfsListFilesystems(w, zfsPool) : w.origin[f] = fullSnapshotName}

\* getSnapshotInfo; a name without "@" is taken as a snapshot of the data dataset
getSnapshotInfo(w, name) ==
  LET fullSnapshotName ==
        IF ~("@" \in Chars(name)) THEN zfsPool \o Slash \o dataSubdir \o At \o name
        ELSE name
  IN
  IF ~snapshotExists(w, fullSnapshotName)
  THEN [res |-> "not_found", name |-> <<>>, fullName |-> <<>>, message |-> <<>>,
        created |-> <<>>, clones |-> {}]
  ELSE [res |-> "ok",
        name |-> IF "@" \in Chars(name) /\ SnapShort(name) # <<>> THEN SnapShort(name) ELSE name,
        fullName |-> fullSnapshotName,
        message |-> zfsGet(w, fullSnapshotName, "message"),
        created |-> zfsGet(w, fullSnapshotName, "created"),
        clones |-> getSnapshotClones(w, fullSnapshotName)]

\* listSnapshots: for every line of zfs list -t snapshot -r <pool>, the info
\* getSnapshotInfo returns for the part of the line after "@"; a line whose
\* getSnapshotInfo throws is left out.  The entries are kept by their line.
listSnapshots(w) ==
  LET info(line) == getSnapshotInfo(w, SnapShort(line))
      kept == {line \in SnapSet(w) : info(line).res = "ok"}
  IN [line \in kept |-> info(line)]

-----------------------------------------------------------------------------
(* The container runtime *)

Container(name, port, mount, running) ==
  [name |-> name, port |-> port, mount |-> mount, running |-> running]

RunningContainers(w) == {c \in w.containers : c.running}

\* a probe whose netstat fails: nothing is reported in use
isPortInUseProbeFailed(w, port) == FALSE

\* netstat -tuln shows ":<port> ": a running container publishes its port on the host
isPortInUse(w, port) ==
  \E c \in RunningContainers(w) : c.port = port

\* <runtime> ps -q -f name=<containerName>: running containers whose name matches
isContainerRunning(w, containerName) ==
  \E c \in RunningContainers(w) : Includes(c.name, containerName)

\* whether <runtime> run -d --name <name> -p <port>:5432 -v <mount>:... can start a container
containerRunOk(w, name, port) ==
  /\ ~("/" \in Chars(name))
  /\ ~(\E c \in w.containers : c.name = name)
  /\ ~isPortInUse(w, port)

containerRun(w, name, port, mount) ==
  [w EXCEPT !.containers = @ \cup {Container(name, port, mount, TRUE)}]

\* <runtime> stop <name>
containerStop(w, name) ==
  [w EXCEPT !.containers =
     {IF c.name = name THEN [c EXCEPT !.running = FALSE] ELSE c : c \in w.containers}]

\* <runtime> rm <name>: removes a container that is not running
containerRm(w, name) ==
  [w EXCEPT !.containers = {c \in @ : ~(c.name = name /\ ~c.running)}]

\* stopContainer: the results of stop and rm are not looked at
stopContainer(w, containerName, stopOk, rmOk) ==
  IF isContainerRunning(w, containerName)
  THEN LET w1 == IF stopOk THEN containerStop(w, containerName) ELSE w
           w2 == IF rmOk THEN containerRm(w1, containerName) ELSE w1
       IN [w |-> w2,
           cmds |-> <<<<"stop", containerName, stopOk>>, <<"rm", containerName, rmOk>>>>]
  ELSE [w |-> w, cmds |-> <<>>]

\* a loop with one more iteration
loopConditionInclusive(i) == i <= maxRetries

\* the condition of the for loop of waitForPostgres
loopCondition(i) == i < maxRetries

RECURSIVE waitLoop(_, _, _)
\* the for loop of waitForPostgres from iteration i on; pg_isready answers from
\* the probe numbered readyAt on (counted from 0)
waitLoop(i, readyAt, probes) ==
  IF loopCondition(i)
  THEN IF i >= readyAt THEN [ok |-> TRUE, probes |-> probes + 1]
       ELSE waitLoop(i + 1, readyAt, probes + 1)
  ELSE [ok |-> FALSE, probes |-> probes]

waitForPostgres(readyAt) == waitLoop(0, readyAt, 0)

-----------------------------------------------------------------------------
(* BranchService, container lineage *)

\* the first line of the list taken, not the last
getLatestSnapshotFirstLine(w) ==
  LET list == SelectSeq(w.snaps, LAMBDA s : SnapFs(s) = dataDataset \/ IsBelow(SnapFs(s), dataDataset))
  IN IF Len(list) > 0 THEN list[1] ELSE <<>>

\* zfs list -t snapshot -r <pool>/<data> -H -o name -s creation, last line
getLatestSnapshot(w) ==
  LET list == SelectSeq(w.snaps, LAMBDA s : SnapFs(s) = dataDataset \/ IsBelow(SnapFs(s), dataDataset))
  IN IF Len(list) > 0 THEN list[Len(list)] ELSE <<>>

getBranchProperty(w, dataset, key) ==
  IF dataset \in Datasets(w) THEN zfsGet(w, dataset, key) ELSE <<>>

\* 0 stands for undefined
getBranchPostgresPort(w, branchName) ==
  LET portStr == getBranchProperty(w, getBranchDataset(branchName), "port") IN
  IF portStr = <<>> \/ portStr = Dash THEN 0
  ELSE IF parseInt(portStr) = NaN THEN 0 ELSE parseInt(portStr)

startPostgresContainer(w, branchName, port, runOk, readyAt) ==
  LET containerName == getContainerName(branchName, port) IN
  IF ~(runOk /\ containerRunOk(w, containerName, port))
  THEN Result(w, "launch_failed", {}, <<<<"run", containerName, FALSE>>>>)
  ELSE LET w1 == containerRun(w, containerName, port, getBranchMount(branchName)) IN
       IF waitForPostgres(readyAt).ok
       THEN Result(w1, "ok", {}, <<<<"run", containerName, TRUE>>>>)
       ELSE Result(w1, "startup_timeout", {}, <<<<"run", containerName, TRUE>>>>)

\* startBranchPostgres; setOk is the answer of the backend to the attribute writes
startBranchPostgresWith(w, name, port, runOk, readyAt, setOk) ==
  LET branchDataset == getBranchDataset(name)
      containerName == getContainerName(name, port)
  IN
  IF isPortInUse(w, port) THEN Result(w, "port_in_use", {}, <<>>)
  ELSE IF ~zfsList(w, branchDataset) THEN Result(w, "not_found", {}, <<>>)
  ELSE IF isContainerRunning(w, containerName) THEN Result(w, "already_running", {}, <<>>)
  ELSE LET r == startPostgresContainer(w, name, port, runOk, readyAt) IN
       IF r.res # "ok" THEN r
       ELSE LET w1 == zfsSetAnswered(r.w, branchDataset, "port", NumToString(port), setOk)
                w2 == zfsSetAnswered(w1, branchDataset, "container", containerName, setOk)
            IN Result(w2, "ok", {}, r.cmds \o <<<<"set_port", branchDataset, setOk>>>>)

startBranchPostgres(w, name, port, runOk, readyAt) ==
  startBranchPostgresWith(w, name, port, runOk, readyAt, TRUE)

\* a stop that looks for the branch's containers by their mount, not by the port attribute
stopPostgresContainerByMount(w, branchName, stopOk, rmOk) ==
  LET mine == {c \in RunningContainers(w) : c.mount = getBranchMount(branchName)} IN
  IF mine = {} THEN [w |-> w, cmds |-> <<>>]
  ELSE stopContainer(w, (CHOOSE c \in mine : TRUE).name, stopOk, rmOk)

stopPostgresContainer(w, branchName, stopOk, rmOk) ==
  LET port == getBranchPostgresPort(w, branchName) IN
  IF port = 0 THEN [w |-> w, cmds |-> <<>>]
  ELSE stopContainer(w, getContainerName(branchName, port), stopOk, rmOk)

\* a stop that clears every zvpg attribute of the branch, not only port and container
stopBranchPostgresInheritAll(w, name, stopOk, rmOk) ==
  LET branchDataset == getBranchDataset(name) IN
  IF ~zfsList(w, branchDataset) THEN Result(w, "not_found", {}, <<>>)
  ELSE LET s == stopPostgresContainer(w, name, stopOk, rmOk)
       IN Result([s.w EXCEPT !.props = [@ EXCEPT ![branchDataset] = NoProps]], "ok", {},
                 s.cmds \o <<<<"inherit_port", branchDataset, TRUE>>>>)

stopBranchPostgres(w, name, stopOk, rmOk) ==
  LET branchDataset == getBranchDataset(name) IN
  IF ~zfsList(w, branchDataset) THEN Result(w, "not_found", {}, <<>>)
  ELSE LET s == stopPostgresContainer(w, name, stopOk, rmOk)
           w1 == zfsInherit(s.w, branchDataset, "port")
           w2 == zfsInherit(w1, branchDataset, "container")
       IN Result(w2, "ok", {}, s.cmds \o <<<<"inherit_port", branchDataset, TRUE>>>>)

\* a clones list that keeps the line of the branch itself
getBranchClonesUnfiltered(w, branchDataset) ==
  {SubSeq(f, Len(branchDataset) + 2, Len(f)) : f \in zfsListFilesystems(w, branchDataset)}

\* the lines of zfs list -t filesystem -r <branch> other than the branch, with
\* "<branch>/" taken off
getBranchClones(w, branchDataset) ==
  {SubSeq(f, Len(branchDataset) + 2, Len(f)) :
     f \in zfsListFilesystems(w, branchDataset) \ {branchDataset}}

\* isContainerRunning does not throw, so "unknown" is never returned
getBranchPostgresStatus(w, containerName) ==
  IF isContainerRunning(w, containerName) THEN "running" ELSE "stopped"

NoInfo ==
  [res |-> "not_found", parentBranch |-> <<>>, parentSnapshot |-> <<>>, created |-> <<>>,
   clones |-> {}, port |-> 0, pgStatus |-> "undefined", containerName |-> <<>>]

\* getBranchInfo; port 0, pgStatus "undefined" and containerName <<>> stand for undefined
getBranchInfo(w, name) ==
  LET branchDataset == getBranchDataset(name)
      port == getBranchPostgresPort(w, name)
      containerName == IF port # 0 THEN getContainerName(name, port) ELSE <<>>
      pgStatus == IF containerName # <<>> THEN getBranchPostgresStatus(w, containerName)
                  ELSE "undefined"
  IN
  IF ~zfsList(w, branchDataset) THEN NoInfo
  ELSE [res |-> "ok",
        parentBranch |-> getBranchProperty(w, branchDataset, "parent_branch"),
        parentSnapshot |-> getBranchProperty(w, branchDataset, "parent_snapshot"),
        created |-> getBranchProperty(w, branchDataset, "created"),
        clones |-> getBranchClones(w, branchDataset),
        port |-> port, pgStatus |-> pgStatus, containerName |-> containerName]

-----------------------------------------------------------------------------
(* listBranches: for every line of zfs list -t filesystem -r <pool>/branches *)
(* but the root itself, getBranchInfo of the part after the last "/"; one  *)
(* getBranchInfo that throws makes listBranches throw.  The entries are    *)
(* kept by their line, each with the name and the dataset of its info.     *)
listBranches(w) ==
  LET branches == zfsListFilesystems(w, branchesDir) \ {branchesDir}
      branchName(branch) == SubSeq(branch, LastIndexOf(branch, "/") + 1, Len(branch))
  IN [res |-> IF \A branch \in branches : getBranchInfo(w, branchName(branch)).res = "ok"
              THEN "ok" ELSE "not_found",
      entries |-> [branch \in branches |->
                     [name |-> branchName(branch),
                      dataset |-> getBranchDataset(branchName(branch))]]]

-----------------------------------------------------------------------------
(* BranchService, pg_ctl lineage: the instance is a postgres process on    *)
(* the branch's mount, kept as a container record without a name           *)

pgCtlStartOk(w, mount, port) ==
  /\ ~(\E c \in RunningContainers(w) : c.mount = mount)
  /\ ~isPortInUse(w, port)

\* pg_ctl start -D <mount> -o "-p <port>", its result not looked at, then a sleep
startPostgresInstance(w, branchName, port, startOk) ==
  LET branchMount == getBranchMount(branchName) IN
  IF startOk /\ pgCtlStartOk(w, branchMount, port)
  THEN [w |-> [w EXCEPT !.containers = @ \cup {Container(<<>>, port, branchMount, TRUE)}],
        cmds |-> <<<<"pg_ctl_start", branchMount, TRUE>>>>]
  ELSE [w |-> w, cmds |-> <<<<"pg_ctl_start", branchMount, FALSE>>>>]

startBranchPostgresPgCtl(w, name, port, startOk) ==
  LET branchDataset == getBranchDataset(name) IN
  IF isPortInUse(w, port) THEN Result(w, "port_in_use", {}, <<>>)
  ELSE IF ~zfsList(w, branchDataset) THEN Result(w, "not_found", {}, <<>>)
  ELSE LET s == startPostgresInstance(w, name, port, startOk)
           w1 == zfsSet(s.w, branchDataset, "port", NumToString(port))
       IN Result(w1, "ok", {}, s.cmds \o <<<<"set_port", branchDataset, TRUE>>>>)

\* pg_ctl stop -D <mount> -m fast; runCommand does not throw, so the catch
\* with the immediate stop is not entered
stopPostgresInstance(w, branchName, stopOk) ==
  LET branchMount == getBranchMount(branchName) IN
  IF stopOk
  THEN [w |-> [w EXCEPT !.containers = {c \in @ : ~(c.name = <<>> /\ c.mount = branchMount)}],
        cmds |-> <<<<"pg_ctl_stop_fast", branchMount, TRUE>>>>]
  ELSE [w |-> w, cmds |-> <<<<"pg_ctl_stop_fast", branchMount, FALSE>>>>]

stopBranchPostgresPgCtl(w, name, stopOk) ==
  LET branchDataset == getBranchDataset(name) IN
  IF ~zfsList(w, branchDataset) THEN Result(w, "not_found", {}, <<>>)
  ELSE LET s == stopPostgresInstance(w, name, stopOk)
           w1 == zfsInherit(s.w, branchDataset, "port")
       IN Result(w1, "ok", {}, s.cmds \o <<<<"inherit_port", branchDataset, TRUE>>>>)

-----------------------------------------------------------------------------
(* BranchService, what the two lineages share.  A lineage with the answers *)
(* of its runtime is a record: how a start goes, how a stop goes.          *)

containerStartAnswers(runOk, readyAt) == [lineage |-> "container", ok |-> runOk, readyAt |-> readyAt]
pgCtlStartAnswers(startOk) == [lineage |-> "pg_ctl", ok |-> startOk, readyAt |-> 0]
containerStopAnswers(stopOk, rmOk) == [lineage |-> "container", ok |-> stopOk, rmOk |-> rmOk]
pgCtlStopAnswers(stopOk) == [lineage |-> "pg_ctl", ok |-> stopOk, rmOk |-> FALSE]

\* this.startBranchPostgres(name, port) of either BranchService
thisStartBranchPostgres(w, name, port, start) ==
  IF start.lineage = "container"
  THEN startBranchPostgres(w, name, port, start.ok, start.readyAt)
  ELSE startBranchPostgresPgCtl(w, name, port, start.ok)

\* this.stopBranchPostgres(name) of either BranchService
thisStopBranchPostgres(w, name, stop) ==
  IF stop.lineage = "container"
  THEN stopBranchPostgres(w, name, stop.ok, stop.rmOk)
  ELSE stopBranchPostgresPgCtl(w, name, stop.ok)

\* createBranch, the same in both lineages but for the startBranchPostgres it ends with
createBranchWith(w, name, port, from, start) ==
  LET branchDataset == getBranchDataset(name)
      latestSnapshot == getLatestSnapshot(w)
      resolved == IF from = <<>> THEN latestSnapshot ELSE from
      parentSnapshot ==
        IF ~("@" \in Chars(resolved)) THEN zfsPool \o Slash \o dataSubdir \o At \o resolved
        ELSE resolved
      needDir == ~zfsList(w, branchesDir)
      w1 == IF needDir THEN zfsCreate(w, branchesDir) ELSE w
      dirCmd == IF needDir THEN <<<<"create", branchesDir, TRUE>>>> ELSE <<>>
  IN
  IF ~validateBranchName(name) THEN Result(w, "invalid_name", {}, <<>>)
  ELSE IF zfsList(w, branchDataset) THEN Result(w, "already_exists", {}, <<>>)
  ELSE IF from = <<>> /\ latestSnapshot = <<>> THEN Result(w, "no_snapshots", {}, <<>>)
  ELSE IF ~snapshotExists(w, parentSnapshot) THEN Result(w, "snapshot_not_found", {}, <<>>)
  ELSE IF needDir /\ ~zfsCreateOk(w, branchesDir)
       THEN Result(w, "backend_failed", {}, <<<<"create", branchesDir, FALSE>>>>)
  ELSE IF ~zfsCloneOk(w1, parentSnapshot, branchDataset)
       THEN Result(w1, "backend_failed", {}, dirCmd \o <<<<"clone", branchDataset, FALSE>>>>)
  ELSE LET w2 == zfsClone(w1, parentSnapshot, branchDataset)
           w3 == zfsSet(w2, branchDataset, "branch_name", name)
           w4 == zfsSet(w3, branchDataset, "parent_branch", <<"main">>)
           w5 == zfsSet(w4, branchDataset, "parent_snapshot", parentSnapshot)
           w6 == zfsSet(w5, branchDataset, "created", formatISOTimestamp)
           r == thisStartBranchPostgres(w6, name, port, start)
       IN Result(r.w, r.res, {}, dirCmd \o <<<<"clone", branchDataset, TRUE>>>> \o r.cmds)

\* createBranch with the branches container created before anything is verified
createBranchContainerFirst(w, name, port, from, runOk, readyAt) ==
  createBranchWith(IF zfsCreateOk(w, branchesDir) THEN zfsCreate(w, branchesDir) ELSE w,
                   name, port, from, containerStartAnswers(runOk, readyAt))

createBranch(w, name, port, from, runOk, readyAt) ==
  createBranchWith(w, name, port, from, containerStartAnswers(runOk, readyAt))

\* the points between two steps of createBranch at which its process can be killed
KillPoints == {"clone", "attributes", "launch"}

\* createBranch whose process is killed after the step named by at: after the
\* clone, after the four attribute writes, or inside startBranchPostgres after
\* the container was launched and before zvpg:port is written.  A call that
\* ends before that point ends as createBranch does.
createBranchKilled(w, name, port, from, at) ==
  LET branchDataset == getBranchDataset(name)
      latestSnapshot == getLatestSnapshot(w)
      resolved == IF from = <<>> THEN latestSnapshot ELSE from
      parentSnapshot ==
        IF ~("@" \in Chars(resolved)) THEN zfsPool \o Slash \o dataSubdir \o At \o resolved
        ELSE resolved
      needDir == ~zfsList(w, branchesDir)
      w1 == IF needDir THEN zfsCreate(w, branchesDir) ELSE w
      done == createBranch(w, name, port, from, TRUE, 0)
  IN
  IF done.res \in {"invalid_name", "already_exists", "no_snapshots", "snapshot_not_found",
                   "backend_failed"}
  THEN done
  ELSE LET w2 == zfsClone(w1, parentSnapshot, branchDataset)
           w3 == zfsSet(w2, branchDataset, "branch_name", name)
           w4 == zfsSet(w3, branchDataset, "parent_branch", <<"main">>)
           w5 == zfsSet(w4, branchDataset, "parent_snapshot", parentSnapshot)
           w6 == zfsSet(w5, branchDataset, "created", formatISOTimestamp)
       IN
       IF at = "clone" THEN Result(w2, "killed", {}, <<>>)
       ELSE IF at = "attributes" THEN Result(w6, "killed", {}, <<>>)
       ELSE IF done.res # "ok" THEN done
       ELSE Result(containerRun(w6, getContainerName(name, port), port, getBranchMount(name)),
                   "killed", {}, <<>>)

\* deleteBranch without the try/catch around stopBranchPostgres and with the
\* results of stop and rm looked at
deleteBranchStopFatal(w, name, force, stop) ==
  LET branchDataset == getBranchDataset(name)
      clones == zfsListFilesystems(w, branchDataset) \ {branchDataset}
  IN
  IF ~zfsList(w, branchDataset) THEN Result(w, "not_found", {}, <<>>)
  ELSE IF clones # {} /\ ~force THEN Result(w, "has_dependents", clones, <<>>)
  ELSE LET s == thisStopBranchPostgres(w, name, stop) IN
       IF \E i \in 1..Len(s.cmds) : ~s.cmds[i][3]
       THEN Result(s.w, "stop_failed", {}, s.cmds)
       ELSE IF ~zfsDestroyOk(s.w, branchDataset)
       THEN Result(s.w, "backend_failed", zfsDestroyBlockers(s.w, branchDataset),
                   s.cmds \o <<<<"destroy", branchDataset, FALSE>>>>)
       ELSE Result(zfsDestroy(s.w, branchDataset), "ok", {},
                   s.cmds \o <<<<"destroy", branchDataset, TRUE>>>>)

\* deleteBranch, the same in both lineages but for the stopBranchPostgres it calls
deleteBranchWith(w, name, force, stop) ==
  LET branchDataset == getBranchDataset(name)
      clones == zfsListFilesystems(w, branchDataset) \ {branchDataset}
  IN
  IF ~zfsList(w, branchDataset) THEN Result(w, "not_found", {}, <<>>)
  ELSE IF clones # {} /\ ~force THEN Result(w, "has_dependents", clones, <<>>)
  ELSE LET s == thisStopBranchPostgres(w, name, stop) IN
       IF ~zfsDestroyOk(s.w, branchDataset)
       THEN Result(s.w, "backend_failed", zfsDestroyBlockers(s.w, branchDataset),
                   s.cmds \o <<<<"destroy", branchDataset, FALSE>>>>)
       ELSE Result(zfsDestroy(s.w, branchDataset), "ok", {},
                   s.cmds \o <<<<"destroy", branchDataset, TRUE>>>>)

deleteBranch(w, name, force, stopOk, rmOk) ==
  deleteBranchWith(w, name, force, containerStopAnswers(stopOk, rmOk))

\* createBranchSnapshot; setOk is the answer of the backend to the attribute writes
createBranchSnapshotWith(w, branchName, snapshotName, message, setOk) ==
  LET branchDataset == getBranchDataset(branchName)
      fullSnapshotName == branchDataset \o At \o snapshotName
  IN
  IF ~zfsList(w, branchDataset) THEN Result(w, "not_found", {}, <<>>)
  ELSE IF snapshotExists(w, fullSnapshotName) THEN Result(w, "already_exists", {}, <<>>)
  ELSE IF ~zfsSnapshotOk(w, fullSnapshotName)
       THEN Result(w, "backend_failed", {}, <<<<"snapshot", fullSnapshotName, FALSE>>>>)
  ELSE LET w1 == zfsSnapshot(w, fullSnapshotName)
           w2 == zfsSetAnswered(w1, fullSnapshotName, "message", message, setOk)
           w3 == zfsSetAnswered(w2, fullSnapshotName, "branch", branchName, setOk)
           w4 == zfsSetAnswered(w3, fullSnapshotName, "created", formatISOTimestamp, setOk)
       IN Result(w4, "ok", {},
                 <<<<"snapshot", fullSnapshotName, TRUE>>,
                   <<"set_message", fullSnapshotName, setOk>>>>)

\* the default message of a branch snapshot
branchSnapshotMessage == <<"B">>

createBranchSnapshot(w, branchName, snapshotName) ==
  createBranchSnapshotWith(w, branchName, snapshotName, branchSnapshotMessage, TRUE)

createBranchPgCtl(w, name, port, from, startOk) ==
  createBranchWith(w, name, port, from, pgCtlStartAnswers(startOk))

deleteBranchPgCtl(w, name, force, stopOk) ==
  deleteBranchWith(w, name, force, pgCtlStopAnswers(stopOk))

-----------------------------------------------------------------------------
(* StatusService.  An answer a says how the commands of each sub-query go: *)
(* "ok", "exit" (the command ran and failed: stdout is the empty string)   *)
(* or "spawn" (it could not be run: stdout is undefined).  The text of a   *)
(* report field is a sequence of words.                                    *)

NA == <<"N/A">>

\* what runCommand returns as stdout: the lines of the output, each its words
Stdout(outcome, lines) ==
  [defined |-> outcome # "spawn", lines |-> IF outcome = "ok" THEN lines ELSE <<>>]

\* stdout?.trim() ?? fallback
trimOr(out, fallback) ==
  IF ~out.defined THEN fallback
  ELSE IF out.lines = <<>> THEN <<"">> ELSE out.lines[1]

\* `${fields[k]}` of (stdout?.split("\n")[1] ?? "").split(/\s+/)
secondLineField(out, k) ==
  LET fields == IF out.defined /\ Len(out.lines) >= 2 THEN out.lines[2] ELSE <<"">>
  IN IF k + 1 <= Len(fields) THEN fields[k + 1] ELSE "undefined"

getZfsPoolStatus(a) ==
  IF a.pool = "failed"
  THEN [name |-> zfsPool, health |-> <<"UNKNOWN">>, size |-> NA, used |-> NA, available |-> NA]
  ELSE [name |-> zfsPool, health |-> <<a.pool>>, size |-> <<"4G">>, used |-> <<"1G">>,
        available |-> <<"3G">>]

getPostgresStatus(a) ==
  [version |-> trimOr(Stdout(a.pgConfig, <<<<"PostgreSQL", "16">>>>), <<"Unknown">>),
   running |-> a.pgCtl,
   mainPort |-> branchPortStart - 1]

getSnapshotsStatus(w, a) ==
  IF ~a.snapshotsList \/ w.snaps = <<>>
  THEN [total |-> 0, totalSize |-> NA, details |-> <<>>]
  ELSE [total |-> Len(w.snaps), totalSize |-> <<"1", "MB">>,
        details |-> [i \in 1..Len(w.snaps) |-> SnapShort(w.snaps[i])]]

\* the details are kept as a set, each entry with the line of listBranches it is for
getBranchesStatus(w, a) ==
  \* every await is bound to the one value it returned: the list of
  \* listBranches, the info of each branch, the details built from them
  LET none == [total |-> 0, active |-> 0, inactive |-> 0, details |-> {}]
      the(S) == CHOOSE r \in S : TRUE
      detail(branches, b) ==
        the({[line |-> b, name |-> branches.entries[b].name, port |-> branchInfo.port,
              status |-> IF branchInfo.pgStatus = "undefined" THEN "unknown"
                         ELSE branchInfo.pgStatus]
             : branchInfo \in {getBranchInfo(w, branches.entries[b].name)}})
      count(details) ==
        the({[total |-> Cardinality(details), active |-> active,
              inactive |-> Cardinality(details) - active, details |-> details]
             : active \in {Cardinality({d \in details : d.port # 0 /\ d.status = "running"})}})
      summary(branches) ==
        IF branches.res # "ok" THEN none
        ELSE the({count(details) : details \in
                    {{detail(branches, b) : b \in DOMAIN branches.entries}}})
  IN IF ~a.branchesList THEN none
     ELSE the({summary(branches) : branches \in {listBranches(w)}})

getSystemInfo(a) ==
  LET hostnameRes == Stdout(a.host, <<<<"h">>>>)
      uptimeRes == Stdout(a.host, <<<<"2", "days">>>>)
      freeRes == Stdout(a.host, <<<<"total", "used">>, <<"Mem:", "8G", "2G">>>>)
      dfRes == Stdout(a.host, <<<<"Filesystem">>, <<"/dev/a", "9G", "3G", "6G", "33%">>>>)
      loadAvgRes == Stdout(a.host, <<<<"0.1">>>>)
  IN [hostname |-> trimOr(hostnameRes, NA),
      uptime |-> trimOr(uptimeRes, NA),
      loadAverage |-> IF loadAvgRes.lines = <<>> THEN NA ELSE loadAvgRes.lines[1],
      memoryUsage |-> <<secondLineField(freeRes, 2), "/", secondLineField(freeRes, 1)>>,
      diskUsage |-> <<secondLineField(dfRes, 2), "/", secondLineField(dfRes, 1),
                      secondLineField(dfRes, 4)>>]

\* no sub-query throws, so the catch of getSystemStatus is not entered
getSystemStatus(w, a) ==
  [res |-> "ok",
   zfsPool |-> getZfsPoolStatus(a),
   postgres |-> getPostgresStatus(a),
   snapshots |-> getSnapshotsStatus(w, a),
   branches |-> getBranchesStatus(w, a),
   system |-> getSystemInfo(a)]

\* healthCheckCommand: the issues it finds in the report
healthCheckCommand(w, a) ==
  LET status == getSystemStatus(w, a) IN
  (IF status.zfsPool.health # <<"ONLINE">> THEN {"pool"} ELSE {})
    \cup (IF ~status.postgres.running THEN {"postgres"} ELSE {})
    \cup (IF status.branches.inactive > 0 THEN {"branches"} ELSE {})

-----------------------------------------------------------------------------
(* CloneService: clones directly below the pool, an instance started with  *)
(* pg_ctl on the clone's directory                                         *)

\* zfs list -t snapshot <pool>/<snapshotName> inside try/catch: runCommand does
\* not throw and its result is not looked at
checkSnapshotExists(w, snapshotName) == TRUE

createClone(w, snapshotName, cloneName, targetPort, startOk) ==
  LET cloneDataset == zfsPool \o Slash \o cloneName
      snapshotDataset == zfsPool \o Slash \o snapshotName
      dataDir == <<"m">> \o Slash \o cloneName
      cloneOk == zfsCloneOk(w, snapshotDataset, cloneDataset)
      w1 == IF cloneOk THEN zfsClone(w, snapshotDataset, cloneDataset) ELSE w
      \* pg_ctl start -D <dataDir> needs the directory of the clone
      started == startOk /\ cloneDataset \in w1.fs /\ pgCtlStartOk(w1, dataDir, targetPort)
      w2 == IF started
            THEN [w1 EXCEPT !.containers = @ \cup {Container(<<>>, targetPort, dataDir, TRUE)}]
            ELSE w1
  IN
  IF isPortInUse(w, targetPort) THEN Result(w, "port_in_use", {}, <<>>)
  ELSE IF ~checkSnapshotExists(w, snapshotName) THEN Result(w, "snapshot_not_found", {}, <<>>)
  ELSE Result(w2, "ok", {},
              <<<<"clone", cloneDataset, cloneOk>>, <<"pg_ctl_start", dataDir, started>>>>)

\* stopPostgresInstance of the clone, then zfs destroy, its result not looked at
deleteClone(w, cloneName, stopOk) ==
  LET cloneDataset == zfsPool \o Slash \o cloneName
      dataDir == <<"m">> \o Slash \o cloneName
      w1 == IF stopOk
            THEN [w EXCEPT !.containers = {c \in @ : ~(c.name = <<>> /\ c.mount = dataDir)}]
            ELSE w
      destroyOk == cloneDataset \in w1.fs /\ zfsDestroyOk(w1, cloneDataset)
      w2 == IF destroyOk THEN zfsDestroy(w1, cloneDataset) ELSE w1
  IN Result(w2, "ok", {},
            <<<<"pg_ctl_stop_fast", dataDir, stopOk>>, <<"destroy", cloneDataset, destroyOk>>>>)

-----------------------------------------------------------------------------
(* The port selection of the branch commands *)

\* pickValidPort; port 0 stands for an omitted port, the result 0 for a thrown error
validatePort(port) == port >= branchPortStart /\ port <= branchPortEnd

FreePorts(w) == {p \in Ports : ~isPortInUse(w, p)}

\* a scan of the range from its upper end
pickValidPortFromTop(w, port) ==
  IF port # 0 /\ validatePort(port)
  THEN IF ~isPortInUse(w, port) THEN [port |-> port, res |-> "ok"]
       ELSE [port |-> 0, res |-> "port_in_use"]
  ELSE IF FreePorts(w) # {}
       THEN [port |-> CHOOSE p \in FreePorts(w) : \A q \in FreePorts(w) : p >= q, res |-> "ok"]
       ELSE [port |-> 0, res |-> "no_ports"]

pickValidPort(w, port) ==
  IF port # 0 /\ validatePort(port)
  THEN IF ~isPortInUse(w, port) THEN [port |-> port, res |-> "ok"]
       ELSE [port |-> 0, res |-> "port_in_use"]
  ELSE IF FreePorts(w) # {}
       THEN [port |-> CHOOSE p \in FreePorts(w) : \A q \in FreePorts(w) : p <= q, res |-> "ok"]
       ELSE [port |-> 0, res |-> "no_ports"]

-----------------------------------------------------------------------------
(* Inputs.  The lifecycle of two branches and their instances; the dataset *)
(* graph of a branch with a nested branch and snapshots of both kinds; two *)
(* branches whose container names contain one another.                     *)

bx == <<"x">>
by == <<"y">>
bxy == <<"x", "/", "y">>
ss1 == <<"s">>
ss2 == <<"s", "s">>
xAtS == getBranchDataset(bx) \o At \o ss1

BranchNames == {bx, by}
GraphBranchNames == {bx, bxy}

\* the names branch create is tried with: the above and one the grammar rejects
NewBranchNames == BranchNames \cup {<<"/", "x">>}
GraphNewBranchNames == GraphBranchNames \cup {<<"/", "x">>}

SnapshotNames == {ss1, <<"/">>}
GraphSnapshotNames == {ss1, ss2, <<"/">>}

\* a branch whose name ends like the container name of bx with the first port
bx6001 == bx \o <<"_">> \o NumToString(branchPortStart)

FaultBranchNames == {bx, bx6001}

\* --from of branch create: omitted, a short name, the full name of a branch snapshot
FromInputs == {<<>>, ss1}
GraphFromInputs == {<<>>, ss1, xAtS}

\* snapshot arguments of snapshot delete: short names and full names
SnapshotArgs == {ss1}
GraphSnapshotArgs == {ss1, ss2, xAtS}

\* --port of the branch commands: the ports of the range and one above it
PreferredPorts == Ports \cup {branchPortEnd + 1}

\* the dataset graph is explored with one port
GraphPorts == {branchPortStart}

\* invocations of the tool running at the same time, and the branch each
\* creates: two of them the same branch, one another branch
Procs == {1, 2, 3}
procBranch(i) == IF i = 2 THEN by ELSE bx

\* messages given to createBranchSnapshot: the default and another
Messages == {branchSnapshotMessage, <<"N">>}

\* how the commands of the status sub-queries go
StatusAnswers ==
  [pool : {"ONLINE", "DEGRADED", "failed"}, pgConfig : {"ok", "exit", "spawn"},
   pgCtl : BOOLEAN, snapshotsList : BOOLEAN, branchesList : BOOLEAN,
   host : {"ok", "exit", "spawn"}]

\* clones of the clone service, and the snapshots it is asked to clone
CloneNames == {<<"c">>, <<"d">>}
CloneSnapshotArgs == {dataSubdir \o At \o ss1, dataSubdir \o At \o ss2}

\* how the runtime answers a start: whether run succeeds and, when it does, the
\* number of pg_isready probes that fail before the first one that succeeds
StartInputs ==
  {[runOk |-> FALSE, readyAt |-> 0], [runOk |-> TRUE, readyAt |-> 0],
   [runOk |-> TRUE, readyAt |-> maxRetries]}

\* how the runtime answers stop and rm: the container stops and is removed, or neither
StopInputs ==
  {[stopOk |-> FALSE, rmOk |-> FALSE], [stopOk |-> TRUE, rmOk |-> TRUE]}

-----------------------------------------------------------------------------
(* Actions: one per service call *)

Apply(op, r) ==
  /\ filesystems' = r.w.fs
  /\ origin' = r.w.origin
  /\ snapshots' = r.w.snaps
  /\ props' = r.w.props
  /\ containers' = r.w.containers
  /\ lastOp' = [op |-> op, res |-> r.res]

CreateSnapshot(name) ==
  /\ Apply("createSnapshot", createSnapshot(World, name))
  /\ UNCHANGED <<selectedPort, waitVars, pc>>

DeleteSnapshot(name, force) ==
  /\ Apply("deleteSnapshot", deleteSnapshot(World, name, force))
  /\ UNCHANGED <<selectedPort, waitVars, pc>>

CreateBranch(name, port, from, in) ==
  /\ Apply("createBranch", createBranch(World, name, port, from, in.runOk, in.readyAt))
  /\ UNCHANGED <<selectedPort, waitVars, pc>>

DeleteBranch(name, force, in) ==
  /\ Apply("deleteBranch", deleteBranch(World, name, force, in.stopOk, in.rmOk))
  /\ UNCHANGED <<selectedPort, waitVars, pc>>

StartBranchPostgres(name, port, in) ==
  /\ Apply("startBranchPostgres", startBranchPostgres(World, name, port, in.runOk, in.readyAt))
  /\ UNCHANGED <<selectedPort, waitVars, pc>>

StopBranchPostgres(name, in) ==
  /\ Apply("stopBranchPostgres", stopBranchPostgres(World, name, in.stopOk, in.rmOk))
  /\ UNCHANGED <<selectedPort, waitVars, pc>>

CreateBranchSnapshot(branchName, snapshotName) ==
  /\ Apply("createBranchSnapshot", createBranchSnapshot(World, branchName, snapshotName))
  /\ UNCHANGED <<selectedPort, waitVars, pc>>

\* createBranchCommand up to the return of pickValidPort
CommandPickPort(port) ==
  /\ selectedPort = 0
  /\ LET r == pickValidPort(World, port) IN
       /\ selectedPort' = r.port
       /\ lastOp' = [op |-> "pickValidPort", res |-> r.res]
  /\ UNCHANGED <<poolVars, runtimeVars, waitVars, pc>>

\* createBranchCommand from the call of createBranch on
CommandCreateBranch(name, from, in) ==
  /\ selectedPort # 0
  /\ Apply("createBranch", createBranch(World, name, selectedPort, from, in.runOk, in.readyAt))
  /\ selectedPort' = 0
  /\ UNCHANGED <<waitVars, pc>>

Init ==
  /\ filesystems \in {{zfsPool}, {zfsPool, dataDataset}}
  /\ origin = [f \in filesystems |-> Dash]
  /\ snapshots = <<>>
  /\ props = [d \in filesystems |-> NoProps]
  /\ containers = {}
  /\ selectedPort = 0
  /\ lastOp = [op |-> "none", res |-> "ok"]
  /\ wPort = 0 /\ wI = 0 /\ wProbes = 0 /\ wDone = "idle"
  /\ pc = [i \in Procs |-> "idle"]

Next ==
  \/ \E n \in SnapshotNames : CreateSnapshot(n)
  \/ \E n \in SnapshotArgs, force \in BOOLEAN : DeleteSnapshot(n, force)
  \/ \E n \in NewBranchNames, p \in Ports, from \in FromInputs, in \in StartInputs :
        CreateBranch(n, p, from, in)
  \/ \E n \in BranchNames, p \in Ports, in \in StartInputs : StartBranchPostgres(n, p, in)
  \/ \E n \in BranchNames, in \in StopInputs : StopBranchPostgres(n, in)
  \/ \E n \in BranchNames, force \in BOOLEAN, in \in StopInputs : DeleteBranch(n, force, in)
  \/ \E p \in PreferredPorts \cup {0} : CommandPickPort(p)
  \/ \E n \in NewBranchNames, from \in FromInputs, in \in StartInputs :
        CommandCreateBranch(n, from, in)

Spec == Init /\ [][Next]_vars

GraphNext ==
  \/ \E n \in GraphSnapshotNames : CreateSnapshot(n)
  \/ \E n \in GraphSnapshotArgs, force \in BOOLEAN : DeleteSnapshot(n, force)
  \/ \E n \in GraphNewBranchNames, p \in GraphPorts, from \in GraphFromInputs, in \in StartInputs :
        CreateBranch(n, p, from, in)
  \/ \E n \in GraphBranchNames, force \in BOOLEAN, in \in StopInputs :
        DeleteBranch(n, force, in)
  \/ \E n \in GraphBranchNames, p \in GraphPorts, in \in StartInputs :
        StartBranchPostgres(n, p, in)
  \/ \E n \in GraphBranchNames, in \in StopInputs : StopBranchPostgres(n, in)
  \/ \E n \in GraphBranchNames : CreateBranchSnapshot(n, ss1)

GraphSpec == Init /\ [][GraphNext]_vars

-----------------------------------------------------------------------------
(* The pg_ctl lineage of the branch service *)

CreateBranchPgCtl(name, port, from, startOk) ==
  /\ Apply("createBranch", createBranchPgCtl(World, name, port, from, startOk))
  /\ UNCHANGED <<selectedPort, waitVars, pc>>

DeleteBranchPgCtl(name, force, stopOk) ==
  /\ Apply("deleteBranch", deleteBranchPgCtl(World, name, force, stopOk))
  /\ UNCHANGED <<selectedPort, waitVars, pc>>

StartBranchPostgresPgCtl(name, port, startOk) ==
  /\ Apply("startBranchPostgres", startBranchPostgresPgCtl(World, name, port, startOk))
  /\ UNCHANGED <<selectedPort, waitVars, pc>>

StopBranchPostgresPgCtl(name, stopOk) ==
  /\ Apply("stopBranchPostgres", stopBranchPostgresPgCtl(World, name, stopOk))
  /\ UNCHANGED <<selectedPort, waitVars, pc>>

PgCtlNext ==
  \/ \E n \in SnapshotNames : CreateSnapshot(n)
  \/ \E n \in SnapshotArgs, force \in BOOLEAN : DeleteSnapshot(n, force)
  \/ \E n \in NewBranchNames, p \in Ports, from \in FromInputs, startOk \in BOOLEAN :
        CreateBranchPgCtl(n, p, from, startOk)
  \/ \E n \in BranchNames, force \in BOOLEAN, stopOk \in BOOLEAN :
        DeleteBranchPgCtl(n, force, stopOk)
  \/ \E n \in BranchNames, p \in Ports, startOk \in BOOLEAN :
        StartBranchPostgresPgCtl(n, p, startOk)
  \/ \E n \in BranchNames, stopOk \in BOOLEAN : StopBranchPostgresPgCtl(n, stopOk)

PgCtlSpec == Init /\ [][PgCtlNext]_vars

-----------------------------------------------------------------------------
(* The clone service next to the snapshot service *)

CreateClone(snapshotName, cloneName, targetPort, startOk) ==
  /\ Apply("createClone", createClone(World, snapshotName, cloneName, targetPort, startOk))
  /\ UNCHANGED <<selectedPort, waitVars, pc>>

DeleteClone(cloneName, stopOk) ==
  /\ Apply("deleteClone", deleteClone(World, cloneName, stopOk))
  /\ UNCHANGED <<selectedPort, waitVars, pc>>

CloneNext ==
  \/ \E n \in GraphSnapshotNames : CreateSnapshot(n)
  \/ \E n \in GraphSnapshotArgs, force \in BOOLEAN : DeleteSnapshot(n, force)
  \/ \E s \in CloneSnapshotArgs, c \in CloneNames, p \in Ports, startOk \in BOOLEAN :
        CreateClone(s, c, p, startOk)
  \/ \E c \in CloneNames, stopOk \in BOOLEAN : DeleteClone(c, stopOk)

CloneSpec == Init /\ [][CloneNext]_vars

-----------------------------------------------------------------------------
(* The status commands next to the branch commands *)

StatusCommand(a) ==
  /\ lastOp' = [op |-> "getSystemStatus", res |-> getSystemStatus(World, a).res]
  /\ UNCHANGED <<poolVars, runtimeVars, selectedPort, waitVars, pc>>

HealthCheckCommand(a) ==
  /\ lastOp' = [op |-> "healthCheck",
                res |-> IF healthCheckCommand(World, a) = {} THEN "healthy" ELSE "issues"]
  /\ UNCHANGED <<poolVars, runtimeVars, selectedPort, waitVars, pc>>

StatusNext ==
  \/ CreateSnapshot(ss1)
  \/ \E n \in GraphBranchNames, p \in Ports, in \in StartInputs : CreateBranch(n, p, <<>>, in)
  \/ \E n \in GraphBranchNames, p \in Ports, in \in StartInputs : StartBranchPostgres(n, p, in)
  \/ \E n \in GraphBranchNames, in \in StopInputs : StopBranchPostgres(n, in)
  \/ \E a \in StatusAnswers : StatusCommand(a)
  \/ \E a \in StatusAnswers : HealthCheckCommand(a)

StatusSpec == Init /\ [][StatusNext]_vars

-----------------------------------------------------------------------------
(* waitForPostgres step by step: every pg_isready probe is a step whose    *)
(* answer the environment chooses                                          *)

WaitInit ==
  /\ filesystems = {zfsPool, dataDataset}
  /\ origin = [f \in filesystems |-> Dash]
  /\ snapshots = <<>>
  /\ props = [d \in filesystems |-> NoProps]
  /\ containers = {}
  /\ selectedPort = 0
  /\ lastOp = [op |-> "none", res |-> "ok"]
  /\ wPort \in Ports /\ wI = 0 /\ wProbes = 0 /\ wDone = "polling"
  /\ pc = [i \in Procs |-> "idle"]

\* one iteration of the for loop: the probe, then return or sleep and i++
WaitProbe(success) ==
  /\ wDone = "polling"
  /\ loopCondition(wI)
  /\ wProbes' = wProbes + 1
  /\ IF success THEN wDone' = "ready" /\ wI' = wI
     ELSE wDone' = wDone /\ wI' = wI + 1
  /\ UNCHANGED <<poolVars, runtimeVars, selectedPort, lastOp, wPort, pc>>

\* the loop condition fails: throw
WaitGiveUp ==
  /\ wDone = "polling"
  /\ ~loopCondition(wI)
  /\ wDone' = "timeout"
  /\ UNCHANGED <<poolVars, runtimeVars, selectedPort, lastOp, wPort, wI, wProbes, pc>>

WaitNext == (\E success \in BOOLEAN : WaitProbe(success)) \/ WaitGiveUp

WaitSpec == WaitInit /\ [][WaitNext]_vars /\ WF_vars(WaitNext)

-----------------------------------------------------------------------------
(* createBranch invocations side by side.  Each await of createBranch  *)
(* is a step; between two steps of one invocation the other may run.       *)

RaceInit ==
  /\ filesystems \in {{zfsPool, dataDataset}, {zfsPool, dataDataset, branchesDir}}
  /\ origin = [f \in filesystems |-> Dash]
  /\ snapshots = <<dataDataset \o At \o ss1>>
  /\ props = [d \in filesystems \cup {dataDataset \o At \o ss1} |-> NoProps]
  /\ containers = {}
  /\ selectedPort = 0
  /\ lastOp = [op |-> "none", res |-> "ok"]
  /\ wPort = 0 /\ wI = 0 /\ wProbes = 0 /\ wDone = "idle"
  /\ pc = [i \in Procs |-> "idle"]

\* a step of invocation i that leaves the world w and goes on at next
RaceStep(i, w, next) ==
  /\ filesystems' = w.fs
  /\ origin' = w.origin
  /\ snapshots' = w.snaps
  /\ props' = w.props
  /\ containers' = w.containers
  /\ pc' = [pc EXCEPT ![i] = next]
  /\ UNCHANGED <<selectedPort, waitVars>>

\* the checks of the name, of the branch and of the source snapshot
RaceVerify(i) ==
  /\ pc[i] = "idle"
  /\ LET res == IF ~validateBranchName(procBranch(i)) THEN "invalid_name"
                ELSE IF zfsList(World, getBranchDataset(procBranch(i))) THEN "already_exists"
                ELSE IF getLatestSnapshot(World) = <<>> THEN "no_snapshots"
                ELSE "ok"
     IN /\ RaceStep(i, World, IF res = "ok" THEN "list_dir" ELSE "failed")
        /\ lastOp' = IF res = "ok" THEN lastOp ELSE [op |-> "createBranch", res |-> res]

\* zfs list <pool>/branches
RaceListDir(i) ==
  /\ pc[i] = "list_dir"
  /\ RaceStep(i, World, IF zfsList(World, branchesDir) THEN "clone" ELSE "create_dir")
  /\ UNCHANGED lastOp

\* zfs create <pool>/branches, and the throw when it fails
RaceCreateDir(i) ==
  /\ pc[i] = "create_dir"
  /\ IF zfsCreateOk(World, branchesDir)
     THEN RaceStep(i, zfsCreate(World, branchesDir), "clone") /\ UNCHANGED lastOp
     ELSE /\ RaceStep(i, World, "failed")
          /\ lastOp' = [op |-> "createBranch", res |-> "backend_failed"]

\* zfs clone and the four attribute writes
RaceClone(i) ==
  /\ pc[i] = "clone"
  /\ LET n == procBranch(i)
         branchDataset == getBranchDataset(n)
         parentSnapshot == getLatestSnapshot(World)
     IN IF zfsCloneOk(World, parentSnapshot, branchDataset)
        THEN LET w2 == zfsClone(World, parentSnapshot, branchDataset)
                 w3 == zfsSet(w2, branchDataset, "branch_name", n)
                 w4 == zfsSet(w3, branchDataset, "parent_branch", <<"main">>)
                 w5 == zfsSet(w4, branchDataset, "parent_snapshot", parentSnapshot)
                 w6 == zfsSet(w5, branchDataset, "created", formatISOTimestamp)
             IN RaceStep(i, w6, "start") /\ UNCHANGED lastOp
        ELSE /\ RaceStep(i, World, "failed")
             /\ lastOp' = [op |-> "createBranch", res |-> "backend_failed"]

\* this.startBranchPostgres(name, port)
RaceStart(i, port, in) ==
  /\ pc[i] = "start"
  /\ LET r == startBranchPostgres(World, procBranch(i), port, in.runOk, in.readyAt) IN
       /\ RaceStep(i, r.w, IF r.res = "ok" THEN "done" ELSE "failed")
       /\ lastOp' = [op |-> "createBranch", res |-> r.res]

RaceNext ==
  \E i \in Procs :
    \/ RaceVerify(i)
    \/ RaceListDir(i)
    \/ RaceCreateDir(i)
    \/ RaceClone(i)
    \/ \E port \in Ports, in \in StartInputs : RaceStart(i, port, in)

RaceSpec == RaceInit /\ [][RaceNext]_vars

-----------------------------------------------------------------------------
(* Faults of the environment: a createBranch whose process is killed, a    *)
(* container that exits on its own, attribute writes the backend refuses   *)

CreateBranchKilled(name, port, from, at) ==
  /\ Apply("createBranchKilled", createBranchKilled(World, name, port, from, at))
  /\ UNCHANGED <<selectedPort, waitVars, pc>>

\* a running container exits (postgres crashes, or someone stops it with the
\* runtime's own command); the runtime keeps the exited container
ContainerExit(c) ==
  /\ c \in RunningContainers(World)
  /\ containers' = (containers \ {c}) \cup {[c EXCEPT !.running = FALSE]}
  /\ lastOp' = [op |-> "containerExit", res |-> "ok"]
  /\ UNCHANGED <<poolVars, selectedPort, waitVars, pc>>

CreateSnapshotWith(name, setOk) ==
  /\ Apply("createSnapshot", createSnapshotWith(World, name, setOk))
  /\ UNCHANGED <<selectedPort, waitVars, pc>>

StartBranchPostgresWith(name, port, in, setOk) ==
  /\ Apply("startBranchPostgres",
           startBranchPostgresWith(World, name, port, in.runOk, in.readyAt, setOk))
  /\ UNCHANGED <<selectedPort, waitVars, pc>>

FaultNext ==
  \/ \E setOk \in BOOLEAN : CreateSnapshotWith(ss1, setOk)
  \/ \E n \in FaultBranchNames, p \in Ports, in \in StartInputs : CreateBranch(n, p, <<>>, in)
  \/ \E n \in FaultBranchNames, p \in Ports, at \in KillPoints :
        CreateBranchKilled(n, p, <<>>, at)
  \/ \E n \in FaultBranchNames, p \in Ports, in \in StartInputs, setOk \in BOOLEAN :
        StartBranchPostgresWith(n, p, in, setOk)
  \/ \E n \in FaultBranchNames, in \in StopInputs : StopBranchPostgres(n, in)
  \/ \E c \in containers : ContainerExit(c)

FaultSpec == Init /\ [][FaultNext]_vars

-----------------------------------------------------------------------------
(* Properties *)

FullSnapshotName(name) ==
  IF ~("@" \in Chars(name)) THEN zfsPool \o Slash \o dataSubdir \o At \o name ELSE name

ClonesOf(full) == {f \in filesystems : origin[f] = full}

FilesystemsBelow(ds) == {f \in filesystems : IsBelow(f, ds)}

C3_NonForcedDeleteNeverFailsOnDependents ==
  /\ \A n \in GraphBranchNames, in \in StopInputs :
       LET r == deleteBranch(World, n, FALSE, in.stopOk, in.rmOk) IN
       ~(r.res = "backend_failed" /\ zfsDestroyBlockers(r.w, getBranchDataset(n)) # {})
  /\ \A n \in GraphSnapshotArgs :
       LET r == deleteSnapshot(World, n, FALSE) IN
       ~(r.res = "backend_failed" /\ zfsDestroyBlockers(r.w, FullSnapshotName(n)) # {})

ValidationFailures ==
  {"invalid_name", "already_exists", "not_found", "snapshot_not_found", "no_snapshots"}

Unchanged(r) == r.res \in ValidationFailures => r.w = World

\* C4: a service call that fails validation (invalid name, duplicate name,
\* snapshot or branch that does not exist) leaves the datasets, their
\* attributes and the instances exactly as they were
C4_ValidationFailureChangesNothing ==
  /\ \A n \in GraphSnapshotNames : Unchanged(createSnapshot(World, n))
  /\ \A n \in GraphSnapshotArgs, force \in BOOLEAN : Unchanged(deleteSnapshot(World, n, force))
  /\ \A n \in GraphNewBranchNames, p \in GraphPorts, from \in GraphFromInputs, in \in StartInputs :
       Unchanged(createBranch(World, n, p, from, in.runOk, in.readyAt))
  /\ \A n \in GraphBranchNames, force \in BOOLEAN, in \in StopInputs :
       Unchanged(deleteBranch(World, n, force, in.stopOk, in.rmOk))
  /\ \A n \in GraphBranchNames, p \in GraphPorts, in \in StartInputs :
       Unchanged(startBranchPostgres(World, n, p, in.runOk, in.readyAt))
  /\ \A n \in GraphBranchNames, in \in StopInputs :
       Unchanged(stopBranchPostgres(World, n, in.stopOk, in.rmOk))
  /\ \A n \in GraphBranchNames, sn \in GraphSnapshotNames :
       Unchanged(createBranchSnapshot(World, n, sn))

C4_Witness ==
  /\ lastOp = [op |-> "createBranch", res |-> "snapshot_not_found"]
  /\ branchesDir \notin filesystems
  /\ snapshots # <<>>

\* C5: a branch create whose port is occupied when the instance would be
\* started fails with port-unavailable and creates no dataset
C5_OccupiedPortCreatesNoDataset ==
  [][(lastOp'.op = "createBranch" /\ lastOp'.res = "port_in_use")
       => filesystems' = filesystems]_vars

\* C6: every branch has at most one live instance, and every live instance
\* belongs to exactly one branch, which exists
C6_OneInstancePerBranch ==
  /\ \A n \in BranchNames :
       Cardinality({c \in RunningContainers(World) : c.mount = getBranchMount(n)}) <= 1
  /\ \A c \in RunningContainers(World) :
       \E n \in BranchNames :
         c.mount = getBranchMount(n) /\ getBranchDataset(n) \in filesystems

IsLive(n) ==
  /\ getBranchDataset(n) \in filesystems
  /\ \E c \in RunningContainers(World) : c.mount = getBranchMount(n)

\* C7: starting a branch that has a live instance fails with already-running
\* whatever the requested port, and changes nothing
C7_StartOfLiveBranchRefused ==
  \A n \in BranchNames, p \in Ports, in \in StartInputs :
    LET r == startBranchPostgres(World, n, p, in.runOk, in.readyAt) IN
    IsLive(n) => r.res = "already_running" /\ r.w = World

\* C8: when the launch or the readiness probe of a start fails, the branch's
\* port and container attributes are what they were before the call
C8_AttributesOnlyAfterConfirmedLaunch ==
  /\ \A n \in BranchNames, p \in Ports, in \in StartInputs :
       LET r == startBranchPostgres(World, n, p, in.runOk, in.readyAt) IN
       r.res \in {"launch_failed", "startup_timeout"} => r.w.props = props
  /\ \A n \in BranchNames, p \in Ports, startOk \in BOOLEAN :
       LET r == startBranchPostgresPgCtl(World, n, p, startOk) IN
       r.w.containers = containers => r.w.props = props

\* C9: when the readiness probe times out the call fails with startup-timeout
\* and the instance that was launched is stopped and removed
C9_TimedOutInstanceRemoved ==
  \A n \in BranchNames, p \in Ports :
    LET r == startBranchPostgres(World, n, p, TRUE, maxRetries) IN
    r.res = "startup_timeout" => ~isContainerRunning(r.w, getContainerName(n, p))

\* C10: waitForPostgres ends; it probes at most 30 times, returns at the first
\* probe that succeeds, probes no more after that, and times out exactly when
\* 30 probes have failed
C10_WaitForPostgresBounded ==
  /\ [](/\ wProbes <= maxRetries
        /\ wDone = "polling" => wProbes = wI
        /\ wDone = "ready" => wProbes = wI + 1
        /\ wDone = "timeout" => (wProbes = maxRetries /\ wI = maxRetries))
  /\ [][wDone # "polling" => (wProbes' = wProbes /\ wDone' = wDone)]_vars
  /\ [][(wDone = "polling" /\ wI = maxRetries) => wDone' = "timeout"]_vars
  /\ <>(wDone # "polling")

C10_Witness == wDone = "timeout" /\ wProbes = maxRetries

RuntimeCmds(cmds) == {i \in 1..Len(cmds) : cmds[i][1] \in {"stop", "rm"}}

\* C11: stopBranchPostgres on an existing branch without a recorded port
\* succeeds, sends no stop and no rm to the runtime, and leaves the pool, the
\* attributes and the instances as they were
C11_StopWithoutPortIsNoOp ==
  \A n \in BranchNames, in \in StopInputs :
    LET r == stopBranchPostgres(World, n, in.stopOk, in.rmOk) IN
    (getBranchDataset(n) \in filesystems /\ getBranchPostgresPort(World, n) = 0) =>
      /\ r.res = "ok"
      /\ RuntimeCmds(r.cmds) = {}
      /\ r.w = World

C11_Witness ==
  /\ lastOp = [op |-> "stopBranchPostgres", res |-> "ok"]
  /\ \E n \in BranchNames :
       /\ getBranchDataset(n) \in filesystems
       /\ getBranchPostgresPort(World, n) = 0
       /\ \E c \in RunningContainers(World) : c.mount = getBranchMount(n)

\* C12: after a stopBranchPostgres on an existing branch, whether or not the
\* instance could be stopped, reading the branch's port and container
\* attributes gives nothing
C12_StopClearsAttributes ==
  \A n \in GraphBranchNames, in \in StopInputs :
    LET r == stopBranchPostgres(World, n, in.stopOk, in.rmOk) IN
    getBranchDataset(n) \in filesystems =>
      /\ getBranchPostgresPort(r.w, n) = 0
      /\ getBranchProperty(r.w, getBranchDataset(n), "container") = Dash

C15_ForcedDeleteIsRecursive ==
  \A n \in GraphBranchNames, in \in StopInputs :
    LET branchDataset == getBranchDataset(n)
        r == deleteBranch(World, n, TRUE, in.stopOk, in.rmOk)
    IN (branchDataset \in filesystems /\ FilesystemsBelow(branchDataset) # {}) =>
         /\ r.res = "ok"
         /\ ~(\E d \in Datasets(r.w) : d = branchDataset \/ IsBelow(d, branchDataset))

\* C16: deleteSnapshot of an existing snapshot succeeds and removes it when no
\* filesystem has exactly that snapshot as its origin, and whenever it is forced
C16_DeleteSnapshotSucceedsWithoutClones ==
  \A n \in GraphSnapshotArgs, force \in BOOLEAN :
    LET full == FullSnapshotName(n)
        r == deleteSnapshot(World, n, force)
    IN (snapshotExists(World, full) /\ (ClonesOf(full) = {} \/ force)) =>
         (r.res = "ok" /\ ~snapshotExists(r.w, full))

\* C17: pickValidPort with a preferred port returns that port, and only when
\* it is in the range and free; out of the range it fails with out-of-range,
\* in use it fails with port-unavailable; it never returns another port
C17_PreferredPortNeverReplaced ==
  \A p \in PreferredPorts :
    LET r == pickValidPort(World, p) IN
    /\ r.res = "ok" => (r.port = p /\ validatePort(p) /\ ~isPortInUse(World, p))
    /\ ~validatePort(p) => r.res = "out_of_range"
    /\ (validatePort(p) /\ isPortInUse(World, p)) => r.res = "port_in_use"

C19_BusyPortIsRetried ==
  [][(selectedPort # 0 /\ selectedPort' = 0 /\ isPortInUse(World, selectedPort)
        /\ FreePorts(World) # {})
       => lastOp'.res # "port_in_use"]_vars

StartFailures == {"port_in_use", "already_running", "launch_failed", "startup_timeout"}

\* C21: when createBranch fails in the start of the instance after the clone,
\* the clone stays: the branch dataset exists with its name, parent branch,
\* origin snapshot and creation attributes, reading its port attribute gives
\* nothing, and getBranchInfo reports it without port and without status
C21_FailedStartKeepsClone ==
  \A n \in GraphNewBranchNames, p \in GraphPorts, from \in GraphFromInputs, in \in StartInputs :
    LET branchDataset == getBranchDataset(n)
        r == createBranch(World, n, p, from, in.runOk, in.readyAt)
        info == getBranchInfo(r.w, n)
    IN r.res \in StartFailures =>
         /\ branchDataset \in r.w.fs
         /\ r.w.props[branchDataset]["branch_name"] = n
         /\ r.w.props[branchDataset]["parent_branch"] = <<"main">>
         /\ r.w.props[branchDataset]["parent_snapshot"] = r.w.origin[branchDataset]
         /\ r.w.props[branchDataset]["created"] # Dash
         /\ getBranchProperty(r.w, branchDataset, "port") = Dash
         /\ info.res = "ok" /\ info.port = 0 /\ info.pgStatus = "undefined"

\* C22: after a createBranch that was killed between two of its steps, a
\* startBranchPostgres of that branch on a port no other branch's container
\* holds, with a runtime that launches and a postgres that answers, succeeds
\* and leaves the branch with exactly one running container, on the port
\* that the branch records
C22_StartAfterKilledCreate ==
  \A n \in FaultBranchNames, p \in Ports, at \in KillPoints, p2 \in Ports :
    LET k == createBranchKilled(World, n, p, <<>>, at)
        r == startBranchPostgres(k.w, n, p2, TRUE, 0)
        mine == {c \in RunningContainers(r.w) : c.mount = getBranchMount(n)}
    IN (/\ k.res = "killed"
        /\ ~(\E c \in k.w.containers : c.mount # getBranchMount(n) /\ c.port = p2)
        /\ ~(\E c \in containers : c.mount = getBranchMount(n))) =>
         /\ r.res = "ok"
         /\ Cardinality(mine) = 1
         /\ \A c \in mine : c.port = getBranchPostgresPort(r.w, n)

C24_StoppedBranchReportedStopped ==
  \A n \in BranchNames, p \in Ports, stop \in StopInputs :
    LET c == createBranch(World, n, p, ss1, TRUE, 0)
        s == stopBranchPostgres(c.w, n, TRUE, TRUE)
        info == getBranchInfo(s.w, n)
        d == deleteBranch(s.w, n, FALSE, stop.stopOk, stop.rmOk)
    IN c.res = "ok" =>
         /\ s.res = "ok"
         /\ info.res = "ok"
         /\ info.pgStatus = "stopped"
         /\ info.port = 0
         /\ d.res = "ok"

\* C25: getBranchInfo reports 'running' only for a branch that has a running
\* container of its own: when a port is recorded and no container on the
\* branch's mount is running, the reported status is 'stopped'
C25_RunningOnlyIfLive ==
  \A n \in FaultBranchNames :
    LET info == getBranchInfo(World, n) IN
    /\ (info.res = "ok" /\ info.pgStatus = "running") => IsLive(n)
    /\ (info.res = "ok" /\ info.port # 0 /\ ~IsLive(n)) => info.pgStatus = "stopped"

\* the positions, in creation order, of the snapshots of the data dataset
DataSnapshotPositions == {i \in 1..Len(snapshots) : SnapFs(snapshots[i]) = dataDataset}

\* C26: a createBranch without a source snapshot that gets as far as the clone
\* clones from the snapshot of the data dataset that was created last, whatever
\* snapshots of branches were created after it, and records that snapshot's
\* full path as the branch's origin
C26_DefaultSourceIsLatestSnapshot ==
  \A n \in GraphNewBranchNames, p \in GraphPorts, in \in StartInputs :
    LET branchDataset == getBranchDataset(n)
        r == createBranch(World, n, p, <<>>, in.runOk, in.readyAt)
    IN (branchDataset \notin filesystems /\ branchDataset \in r.w.fs) =>
         \E i \in DataSnapshotPositions :
           /\ \A j \in DataSnapshotPositions : j <= i
           /\ r.w.origin[branchDataset] = snapshots[i]
           /\ r.w.props[branchDataset]["parent_snapshot"] = snapshots[i]
           /\ getBranchInfo(r.w, n).parentSnapshot = snapshots[i]

\* a branch cloned from the second of two data snapshots while the newest
\* snapshot of the pool is one of a branch
C26_Witness ==
  /\ lastOp.op = "createBranch" /\ lastOp.res \in StartFailures
  /\ Cardinality(DataSnapshotPositions) = 2
  /\ Len(snapshots) = 3 /\ SnapFs(snapshots[3]) # dataDataset
  /\ getBranchDataset(bxy) \in filesystems
  /\ \E i \in DataSnapshotPositions :
       /\ \A j \in DataSnapshotPositions : j <= i
       /\ origin[getBranchDataset(bxy)] = snapshots[i]

\* C27: an invocation of createBranch that found the branches container
\* missing always goes on to its clone, also when another invocation has
\* created the container in the meantime and its own create is rejected
C27_ConcurrentContainerCreateTolerated ==
  [][\A i \in Procs : (pc[i] = "create_dir" /\ pc'[i] # pc[i]) => pc'[i] = "clone"]_vars

\* C28: after a createBranchSnapshot(branch, name, msg) that succeeded the
\* snapshot <branch dataset>@<name> exists, and getSnapshotInfo(name) returns
\* the entry of that path, with msg as its message
C28_BranchSnapshotRoundTrip ==
  \A n \in GraphBranchNames, sn \in {ss1, ss2}, msg \in Messages :
    LET full == getBranchDataset(n) \o At \o sn
        r == createBranchSnapshotWith(World, n, sn, msg, TRUE)
        info == getSnapshotInfo(r.w, sn)
    IN r.res = "ok" =>
         /\ snapshotExists(r.w, full)
         /\ info.res = "ok"
         /\ info.fullName = full
         /\ info.message = msg

\* C29: a stop of a branch's instance asks for a graceful shutdown first
\* and, when that request fails, asks for an immediate one; the call still
\* succeeds
C29_ForcefulStopAfterFailedGraceful ==
  \A n \in BranchNames, stopOk \in BOOLEAN :
    LET r == stopBranchPostgresPgCtl(World, n, stopOk)
        Requests(kind) == {i \in 1..Len(r.cmds) : r.cmds[i][1] = kind}
    IN getBranchDataset(n) \in filesystems =>
         /\ r.res = "ok"
         /\ Requests("pg_ctl_stop_fast") # {}
         /\ \A i \in Requests("pg_ctl_stop_fast") :
              ~r.cmds[i][3] => \E j \in Requests("pg_ctl_stop_immediate") : j > i

NoCommandFailed(r) == \A i \in 1..Len(r.cmds) : r.cmds[i][3]

\* C30: createSnapshot, createBranchSnapshot, startBranchPostgres and
\* createBranch report success only when every backend command they issued,
\* the attribute writes included, succeeded
C30_BackendFailureIsFatal ==
  /\ \A setOk \in BOOLEAN :
       LET r == createSnapshotWith(World, ss1, setOk) IN r.res = "ok" => NoCommandFailed(r)
  /\ \A n \in FaultBranchNames, msg \in Messages, setOk \in BOOLEAN :
       LET r == createBranchSnapshotWith(World, n, ss1, msg, setOk) IN
       r.res = "ok" => NoCommandFailed(r)
  /\ \A n \in FaultBranchNames, p \in Ports, in \in StartInputs, setOk \in BOOLEAN :
       LET r == startBranchPostgresWith(World, n, p, in.runOk, in.readyAt, setOk) IN
       r.res = "ok" => NoCommandFailed(r)
  /\ \A n \in FaultBranchNames, p \in Ports, in \in StartInputs :
       LET r == createBranch(World, n, p, <<>>, in.runOk, in.readyAt) IN
       r.res = "ok" => NoCommandFailed(r)

OriginKeys == {"parent_snapshot", "parent_branch", "created"}

\* C31: no step changes the origin snapshot, the parent-branch label or the
\* creation time that a branch carries, locally or as zfs get reads them, nor
\* the snapshot it is a clone of, as long as the branch exists
C31_OriginNeverChanges ==
  [][\A n \in GraphBranchNames, k \in OriginKeys :
       LET branchDataset == getBranchDataset(n) IN
       (branchDataset \in filesystems /\ branchDataset \in filesystems') =>
         /\ props'[branchDataset][k] = props[branchDataset][k]
         /\ getBranchProperty(World', branchDataset, k) = getBranchProperty(World, branchDataset, k)
         /\ origin'[branchDataset] = origin[branchDataset]]_vars

C31_Witness ==
  /\ lastOp = [op |-> "stopBranchPostgres", res |-> "ok"]
  /\ getBranchDataset(bx) \in filesystems /\ getBranchDataset(bxy) \in filesystems
  /\ snapshotExists(World, xAtS)
  /\ \A n \in GraphBranchNames, k \in OriginKeys : props[getBranchDataset(n)][k] # Dash

\* C39: createClone of a snapshot that does not exist, on a free port, fails
\* with the snapshot-does-not-exist error, issues no backend clone, starts no
\* instance and changes nothing
C39_CloneOfMissingSnapshotRefused ==
  \A s \in CloneSnapshotArgs, c \in CloneNames, p \in Ports, startOk \in BOOLEAN :
    LET r == createClone(World, s, c, p, startOk) IN
    (~snapshotExists(World, zfsPool \o Slash \o s) /\ ~isPortInUse(World, p)) =>
      /\ r.res = "snapshot_not_found"
      /\ \A i \in 1..Len(r.cmds) : r.cmds[i][1] \notin {"clone", "pg_ctl_start"}
      /\ r.w = World

\* C34: listBranches returns, and has one entry for every filesystem below the
\* branches root and none for the root, each entry resolving to the dataset
\* that was listed
C34_ListBranchesOnePerDataset ==
  LET l == listBranches(World) IN
  /\ l.res = "ok"
  /\ DOMAIN l.entries = {f \in filesystems : IsBelow(f, branchesDir)}
  /\ \A branch \in DOMAIN l.entries :
       /\ l.entries[branch].dataset = branch
       /\ getBranchInfo(World, l.entries[branch].name).res = "ok"

\* C35: listSnapshots has one entry for every snapshot of the pool, and the
\* entry's fullName, message and clones are those of that snapshot
C35_ListSnapshotsOnePerSnapshot ==
  LET l == listSnapshots(World) IN
  /\ DOMAIN l = SnapSet(World)
  /\ \A line \in DOMAIN l :
       /\ l[line].fullName = line
       /\ l[line].message = zfsGet(World, line, "message")
       /\ l[line].clones = getSnapshotClones(World, line)

\* C36: a deleteBranch that returns an error leaves every instance as it was
\* and the port and container attributes of the branch unchanged
C36_FailedDeleteKeepsInstance ==
  \A n \in GraphBranchNames, force \in BOOLEAN, in \in StopInputs :
    LET r == deleteBranch(World, n, force, in.stopOk, in.rmOk)
        branchDataset == getBranchDataset(n)
    IN r.res # "ok" =>
         /\ r.w.containers = World.containers
         /\ branchDataset \in filesystems =>
              /\ branchDataset \in r.w.fs
              /\ r.w.props[branchDataset]["port"] = props[branchDataset]["port"]
              /\ r.w.props[branchDataset]["container"] = props[branchDataset]["container"]

\* C37: for an existing branch, with a runtime that carries out what it is
\* asked, stopBranchPostgres followed by startBranchPostgres on an in-range
\* port that is free after the stop succeeds and leaves the branch running on
\* that port with that port stored
C37_StopThenStartSucceeds ==
  \A n \in BranchNames \cup FaultBranchNames, p \in Ports :
    LET s == stopBranchPostgres(World, n, TRUE, TRUE)
        r == startBranchPostgres(s.w, n, p, TRUE, 0)
    IN (s.res = "ok" /\ ~isPortInUse(s.w, p)) =>
         /\ r.res = "ok"
         /\ \E c \in RunningContainers(r.w) : c.mount = getBranchMount(n) /\ c.port = p
         /\ getBranchPostgresPort(r.w, n) = p

\* C38: of two createBranch invocations for the same name at most one gets as
\* far as its start and at most one returns success, and every step of an
\* invocation that is not the start after its own clone leaves the attributes
\* of the branch, once it exists, and all instances as they are
C38_SameNameRaceHasOneWinner ==
  [][\A i \in Procs, j \in Procs :
       (i # j /\ procBranch(i) = procBranch(j)) =>
         LET branchDataset == getBranchDataset(procBranch(i)) IN
         /\ ~(pc'[i] \in {"start", "done"} /\ pc'[j] \in {"start", "done"})
         /\ (pc'[i] # pc[i] /\ pc[i] # "start" /\ branchDataset \in filesystems) =>
              /\ pc'[i] \notin {"start", "done"}
              /\ branchDataset \in filesystems'
              /\ props'[branchDataset] = props[branchDataset]
              /\ origin'[branchDataset] = origin[branchDataset]
              /\ containers' = containers]_vars

\* one invocation has returned success and the other one for the same name,
\* past its checks before the branch was there, has failed in the backend since
C38_Witness ==
  /\ pc[1] = "done" /\ pc[3] = "failed" /\ pc[2] = "idle"
  /\ lastOp = [op |-> "createBranch", res |-> "backend_failed"]
  /\ \E c \in RunningContainers(World) : c.mount = getBranchMount(bx)

\* C32: getSystemStatus returns a report whatever sub-queries fail, and every
\* failed sub-query contributes its placeholder: health UNKNOWN and N/A sizes,
\* version Unknown and not running, no snapshots and no branches with zero
\* counts, N/A host fields
C32_FailedSubQueriesGivePlaceholders ==
  \A a \in StatusAnswers :
    LET status == getSystemStatus(World, a) IN
    /\ status.res = "ok"
    /\ a.pool = "failed" =>
         status.zfsPool = [name |-> zfsPool, health |-> <<"UNKNOWN">>, size |-> NA,
                           used |-> NA, available |-> NA]
    /\ (a.pgConfig # "ok" /\ ~a.pgCtl) =>
         (status.postgres.version = <<"Unknown">> /\ ~status.postgres.running)
    /\ ~a.snapshotsList =>
         status.snapshots = [total |-> 0, totalSize |-> NA, details |-> <<>>]
    /\ ~a.branchesList =>
         status.branches = [total |-> 0, active |-> 0, inactive |-> 0, details |-> {}]
    /\ a.host # "ok" =>
         status.system = [hostname |-> NA, uptime |-> NA, loadAverage |-> NA,
                          memoryUsage |-> NA, diskUsage |-> NA]

\* the branches that are not both holding a port and running
InactiveBranches ==
  {d \in filesystems :
     /\ IsBelow(d, branchesDir)
     /\ ~(props[d]["port"] # Dash
          /\ \E c \in RunningContainers(World) : c.mount = <<"m">> \o Slash \o d)}

====
